---------------------------- MODULE Spec2Model ----------------------------
(***************************************************************************)
(* Model of webhooks.py: the Flask handler index() that validates a        *)
(* webhook request, resolves the hook scripts of the hooks directory,      *)
(* saves the payload to a temporary file, runs the scripts one after the   *)
(* other and answers.                                                      *)
(*                                                                         *)
(* Each handler invocation runs on a thread of the WSGI server; a thread   *)
(* goes through the statements of index() one action at a time.  The       *)
(* request a thread serves is drawn when it is received; the application   *)
(* configuration and the hooks directory are fixed for a behaviour, the    *)
(* temporary directory is shared by all threads.                           *)
(***************************************************************************)
EXTENDS Integers, Sequences, FiniteSets, TLC

VARIABLES
    config,     \* application.config: GITHUB_IPS_ONLY, ENFORCE_SECRET, RETURN_SCRIPTS_INFO
    hooksdir,   \* the hooks directory: file name -> kind of directory entry
    tmpdir,     \* the temporary directory: file name -> content, or NoFile
    threads,    \* the server threads that serve requests
    req         \* per thread: the request served and the locals of index()

vars == <<config, hooksdir, tmpdir, threads, req>>

-----------------------------------------------------------------------------
(* Bounds of the model *)

\* the temporary directory offers this many file names
NumTmpNames == 2

\* at most this many entries exist in the hooks directory
MaxHookFiles == 2

-----------------------------------------------------------------------------
(* Values *)

ThreadIds == {"t1", "t2"}

TmpNames == 1..NumTmpNames

NoFile == "<no file>"

SECRET == "s3cret"

\* raw request bodies (request.data)
BodyGithub   == "{\"repository\":{\"name\":\"repo\"},\"ref\":\"refs/heads/main\"}"
BodyGitlab   == "{\"object_kind\":\"push\",\"repository\":{\"name\":\"repo\"},\"ref\":\"refs/heads/main\"}"
BodyNoRepo   == "{\"object_kind\":\"push\",\"ref\":\"refs/heads/main\"}"
BodyNoName   == "{\"object_kind\":\"push\",\"repository\":{\"url\":\"u\"},\"ref\":\"refs/heads/main\"}"
BodyNoRef    == "{\"object_kind\":\"push\",\"repository\":{\"name\":\"repo\"}}"
BodyShortRef == "{\"object_kind\":\"push\",\"repository\":{\"name\":\"repo\"},\"ref\":\"main\"}"
BodyNotJson  == "payload=not+json"

Bodies == {BodyGithub, BodyGitlab, BodyNoRepo, BodyNoName, BodyNoRef,
           BodyShortRef, BodyNotJson}

\* json.loads: the texts that parse
IsJson(data) == data # BodyNotJson

\* json.loads: the value of a text that parses
loads(data) ==
    CASE data = BodyGithub ->
           [repository |-> [name |-> "repo"], ref |-> "refs/heads/main"]
      [] data = BodyGitlab ->
           [object_kind |-> "push", repository |-> [name |-> "repo"],
            ref |-> "refs/heads/main"]
      [] data = BodyNoRepo ->
           [object_kind |-> "push", ref |-> "refs/heads/main"]
      [] data = BodyNoName ->
           [object_kind |-> "push", repository |-> [url |-> "u"],
            ref |-> "refs/heads/main"]
      [] data = BodyNoRef ->
           [object_kind |-> "push", repository |-> [name |-> "repo"]]
      [] data = BodyShortRef ->
           [object_kind |-> "push", repository |-> [name |-> "repo"],
            ref |-> "main"]

\* json.dumps of a parsed payload: the text written to the temporary file
dumps(payload) == CHOOSE t \in Bodies : IsJson(t) /\ loads(t) = payload

\* str.split('/') of a ref
SplitSlash(ref) ==
    CASE ref = "refs/heads/main" -> <<"refs", "heads", "main">>
      [] ref = "main"            -> <<"main">>

\* hmac.new(key, msg, sha1).hexdigest()
HmacSha1Hex(key, msg) == "hmac-sha1[" \o key \o "][" \o msg \o "]"

\* the networks of the allowlist: base address and prefix length, on
\* addresses of two bits
Net(base, prefix) == [base |-> base, prefix |-> prefix]

Pow2(n) == IF n = 0 THEN 1 ELSE IF n = 1 THEN 2 ELSE 4

\* a containment test that forgets the end of the network
InNetwork_NoUpperEnd(ip, net) == ip >= net.base

\* src_ip in ip_network(valid_ip)
InNetwork(ip, net) ==
    ip \div Pow2(2 - net.prefix) = net.base \div Pow2(2 - net.prefix)

\* headers.get(name, default)
HeaderGet(headers, name, default) ==
    IF name \in DOMAIN headers THEN headers[name] ELSE default


-----------------------------------------------------------------------------
(* The hooks directory *)

HOOKS == "hooks"

\* os.path.join(hooks, name), for a name without a slash
join(dir, name) == [dir |-> dir, base |-> name]

\* os.path.basename
basename(path) == path.base

\* kinds of directory entry: no entry, a regular file without the execute
\* bit, an executable script, and a regular file with the execute bit that
\* the kernel refuses to execute (an interpreter line naming a missing
\* program, no interpreter line, an unknown format)
Absent == "absent"
Plain  == "plain"
Script == "script"
Broken == "broken"

Kinds == {Absent, Plain, Script, Broken}

HookNames == {"push-repo-main", "push-repo", "push", "all"}

KindOf(path) ==
    IF path.dir = HOOKS /\ path.base \in DOMAIN hooksdir
    THEN hooksdir[path.base] ELSE Absent

\* os.path.isfile
isfile(path) == KindOf(path) \in {Plain, Script, Broken}

\* os.access(path, X_OK)
access_X_OK(path) == KindOf(path) \in {Script, Broken}

\* whether execve of the file succeeds: otherwise Popen raises OSError
CanExec(path) == KindOf(path) = Script

HooksDirs ==
    {d \in [HookNames -> Kinds] :
        Cardinality({n \in HookNames : d[n] # Absent}) <= MaxHookFiles}

-----------------------------------------------------------------------------
(* Requests *)

NoHeaders == [h \in {} |-> ""]

\* the headers of a request, each given as an empty or one-element sequence
Headers(sig, github, gitlab) ==
    [h \in (IF sig = <<>> THEN {} ELSE {"X-Hub-Signature"})
           \cup (IF github = <<>> THEN {} ELSE {"X-GitHub-Event"})
           \cup (IF gitlab = <<>> THEN {} ELSE {"X-Gitlab-Event"}) |->
        CASE h = "X-Hub-Signature" -> sig[1]
          [] h = "X-GitHub-Event"  -> github[1]
          [] h = "X-Gitlab-Event"  -> gitlab[1]]

\* X-Hub-Signature values, given as their fields between '=' signs
SignatureHeaders(data) ==
    { <<>>,
      << <<"sha1", HmacSha1Hex(SECRET, data)>> >>,
      << <<"sha1", HmacSha1Hex("other", data)>> >>,
      << <<"md5", "hmac-md5[" \o SECRET \o "][" \o data \o "]">> >> }

\* X-GitHub-Event and X-Gitlab-Event
EventHeaders ==
    { << <<>>, <<>> >>,
      << <<"push">>, <<>> >>,
      << <<"all">>, <<>> >>,
      << <<>>, <<"push">> >>,
      << <<"">>, <<"push">> >> }

Addresses == {1, 2}

\* the 'hooks' list of https://api.github.com/meta
Whitelists == { << Net(0, 2), Net(2, 1) >> }

Request(method, addr, whitelist, headers, data) ==
    [method |-> method, remote_addr |-> addr, whitelist |-> whitelist,
     headers |-> headers, data |-> data]

\* POST requests, and GET requests with the body of a push
AllRequests ==
    UNION { { Request(m, a, w, Headers(s, e[1], e[2]), d) :
                m \in {"POST"}, a \in Addresses, w \in Whitelists,
                e \in EventHeaders, s \in SignatureHeaders(d) } :
            d \in Bodies }
    \cup { Request("GET", a, w, Headers(s, <<"push">>, <<>>), BodyGithub) :
             a \in Addresses, w \in Whitelists,
             s \in SignatureHeaders(BodyGithub) }

\* the requests two threads serve at the same time: push notifications and
\* a request that is refused
ConcurrentRequests ==
    { Request("POST", 2, w, Headers(<<>>, <<e>>, <<>>), BodyGithub) :
        w \in Whitelists, e \in {"push", "all"} }
    \cup { Request("GET", 2, w, NoHeaders, BodyGithub) : w \in Whitelists }

\* what the clients send, by the number of threads of the server
Workload == IF Cardinality(threads) = 1 THEN AllRequests ELSE ConcurrentRequests

Configs ==
    [GITHUB_IPS_ONLY : BOOLEAN, ENFORCE_SECRET : {"", SECRET},
     RETURN_SCRIPTS_INFO : BOOLEAN]

-----------------------------------------------------------------------------
(* The state of a thread: the request and the locals of index() *)

NoRequest == Request("", 0, <<>>, NoHeaders, "")

NoPayload == [k \in {} |-> ""]

NoMeta == [name |-> "", branch |-> "", event |-> ""]

NoRan == [k \in {} |-> 0]

Idle ==
    [pc |-> "idle", request |-> NoRequest,
     event |-> "", payload |-> NoPayload, meta |-> NoMeta,
     candidate_scripts |-> <<>>, scripts |-> <<>>, tmpfile |-> 0, i |-> 0,
     ran |-> NoRan, status |-> 0, body |-> <<>>,
     \* history of the request, read by the properties only
     created |-> 0, written |-> 0, removed |-> 0,
     launched |-> <<>>, execs |-> <<>>]

Init ==
    /\ threads \in {{"t1"}, ThreadIds}
    /\ config \in Configs
    /\ hooksdir \in HooksDirs
    /\ tmpdir = [n \in TmpNames |-> NoFile]
    /\ req = [t \in ThreadIds |-> Idle]
    /\ Cardinality(threads) > 1 =>
          config.ENFORCE_SECRET = "" /\ ~config.GITHUB_IPS_ONLY

\* the thread's state with some locals changed
Set(t, changes) ==
    [req EXCEPT ![t] =
        [f \in DOMAIN req[t] |->
            IF f \in DOMAIN changes THEN changes[f] ELSE req[t][f]]]

\* flask.abort(code), an unhandled exception (code 500) or a return; the
\* body is <<>> for an empty one, or holds the value serialised
Answer(t, code, text) == Set(t, [pc |-> "done", status |-> code, body |-> text])

\* the server hands a request to a free thread, which enters index()
Receive(t) ==
    /\ t \in threads
    /\ req[t].pc = "idle"
    /\ \E r \in Workload :
          req' = [req EXCEPT ![t] = [Idle EXCEPT !.pc = "method", !.request = r]]
    /\ UNCHANGED <<config, hooksdir, tmpdir, threads>>

\* line 78: only POST is implemented
MethodCheck(t) ==
    /\ req[t].pc = "method"
    /\ req' = IF req[t].request.method # "POST"
              THEN Answer(t, 501, <<>>)
              ELSE Set(t, [pc |-> "ip"])
    /\ UNCHANGED <<config, hooksdir, tmpdir, threads>>

\* a loop that breaks on its first network whatever the address
InWhitelist_BreakFirst(src_ip, whitelist) == Len(whitelist) > 0

\* lines 89-93: the for/else over the whitelist
InWhitelist(src_ip, whitelist) ==
    \E k \in 1..Len(whitelist) : InNetwork(src_ip, whitelist[k])

\* lines 83-93: allow Github IPs only
IpCheck(t) ==
    /\ req[t].pc = "ip"
    /\ req' = IF config.GITHUB_IPS_ONLY
                 /\ ~InWhitelist(req[t].request.remote_addr, req[t].request.whitelist)
              THEN Answer(t, 403, <<>>)
              ELSE Set(t, [pc |-> "secret"])
    /\ UNCHANGED <<config, hooksdir, tmpdir, threads>>

\* a comparison of the computed digest with itself
compare_digest_Self(a, b) == a = a

\* hmac.compare_digest
compare_digest(a, b) == a = b

\* lines 96-106: the answer of the secret check, 0 when the request passes
SecretVerdict(secret, headers, data) ==
    IF secret = "" THEN 0
    ELSE IF "X-Hub-Signature" \notin DOMAIN headers THEN 500  \* None.split
    ELSE LET fields == headers["X-Hub-Signature"] IN
         IF Len(fields) # 2 THEN 500                          \* unpacking
         ELSE IF fields[1] # "sha1" THEN 501
         ELSE IF ~compare_digest(HmacSha1Hex(secret, data), fields[2]) THEN 403
         ELSE 0

\* lines 96-106: enforce secret
SecretCheck(t) ==
    /\ req[t].pc = "secret"
    /\ LET v == SecretVerdict(config.ENFORCE_SECRET, req[t].request.headers,
                              req[t].request.data)
       IN req' = IF v # 0 THEN Answer(t, v, <<>>) ELSE Set(t, [pc |-> "event"])
    /\ UNCHANGED <<config, hooksdir, tmpdir, threads>>

\* lines 109-111: the event of the headers
HeaderEvent(headers) ==
    IF "X-GitHub-Event" \in DOMAIN headers
    THEN headers["X-GitHub-Event"]
    ELSE HeaderGet(headers, "X-Gitlab-Event", "")

\* lines 109-114: a ping is logged and processed like any event
ClassifyEvent(t) ==
    /\ req[t].pc = "event"
    /\ req' = Set(t, [pc |-> "parse", event |-> HeaderEvent(req[t].request.headers)])
    /\ UNCHANGED <<config, hooksdir, tmpdir, threads>>


\* lines 117-126: whether the try block raises nothing
ParseOk(data, event) ==
    /\ IsJson(data)
    /\ LET payload == loads(data) IN
          /\ "repository" \in DOMAIN payload
          /\ "name" \in DOMAIN payload.repository
          /\ "ref" \in DOMAIN payload
          /\ Len(SplitSlash(payload.ref)) >= 3
          /\ event # "" \/ "object_kind" \in DOMAIN payload

\* lines 119-123
Meta(payload, event) ==
    [name   |-> payload.repository.name,
     branch |-> SplitSlash(payload.ref)[3],
     event  |-> IF event # "" THEN event ELSE payload.object_kind]

\* an except clause that logs and goes on, without abort(400)
ParsePayload_NoAbort(t) ==
    /\ req[t].pc = "parse"
    /\ req' = IF ParseOk(req[t].request.data, req[t].event)
              THEN LET payload == loads(req[t].request.data) IN
                   Set(t, [pc |-> "resolve", payload |-> payload,
                           meta |-> Meta(payload, req[t].event)])
              ELSE Set(t, [pc |-> "resolve"])
    /\ UNCHANGED <<config, hooksdir, tmpdir, threads>>

\* lines 117-126: gather data
ParsePayload(t) ==
    /\ req[t].pc = "parse"
    /\ req' = IF ParseOk(req[t].request.data, req[t].event)
              THEN LET payload == loads(req[t].request.data) IN
                   Set(t, [pc |-> "resolve", payload |-> payload,
                           meta |-> Meta(payload, req[t].event)])
              ELSE Answer(t, 400, <<>>)
    /\ UNCHANGED <<config, hooksdir, tmpdir, threads>>

\* lines 129-134: possible hooks
Candidates(meta) ==
    << join(HOOKS, meta.event \o "-" \o meta.name \o "-" \o meta.branch),
       join(HOOKS, meta.event \o "-" \o meta.name),
       join(HOOKS, meta.event),
       join(HOOKS, "all") >>

\* line 137: the test of the list comprehension
Runnable(s) == isfile(s) /\ access_X_OK(s)

\* a priority fallback: only the first candidate that qualifies
SelectScripts_FirstMatch(candidate_scripts) ==
    LET all == SelectSeq(candidate_scripts, Runnable)
    IN IF all = <<>> THEN <<>> ELSE <<Head(all)>>

\* line 137: check permissions
SelectScripts(candidate_scripts) == SelectSeq(candidate_scripts, Runnable)

\* lines 129-140: resolve the scripts; nothing to run answers ''
ResolveScripts(t) ==
    /\ req[t].pc = "resolve"
    /\ LET candidate_scripts == Candidates(req[t].meta)
           scripts == SelectScripts(candidate_scripts)
       IN req' = IF scripts = <<>>
                 THEN [Answer(t, 200, <<>>) EXCEPT
                          ![t].candidate_scripts = candidate_scripts]
                 ELSE Set(t, [pc |-> "mkstemp", scripts |-> scripts,
                              candidate_scripts |-> candidate_scripts])
    /\ UNCHANGED <<config, hooksdir, tmpdir, threads>>

\* a name chosen without looking at the files that exist
MkstempNames_NoExcl(dir) == TmpNames

\* tempfile.mkstemp creates a file that does not exist yet (O_EXCL)
MkstempNames(dir) == {n \in TmpNames : dir[n] = NoFile}

\* line 143: create the temporary file, empty
Mkstemp(t) ==
    /\ req[t].pc = "mkstemp"
    /\ \E n \in MkstempNames(tmpdir) :
          /\ tmpdir' = [tmpdir EXCEPT ![n] = ""]
          /\ req' = Set(t, [pc |-> "write", tmpfile |-> n,
                            created |-> req[t].created + 1])
    /\ UNCHANGED <<config, hooksdir, threads>>

\* lines 144-145: save the payload to the temporary file
WritePayload(t) ==
    /\ req[t].pc = "write"
    /\ tmpdir' = [tmpdir EXCEPT ![req[t].tmpfile] = dumps(req[t].payload)]
    /\ req' = Set(t, [pc |-> "popen", i |-> 1, written |-> req[t].written + 1])
    /\ UNCHANGED <<config, hooksdir, threads>>

\* line 152: the argument vector of the child process
Argv(s, tmpfile, event) == <<s, tmpfile, event>>

\* lines 151-154: start scripts[i]; Popen raises OSError when the file
\* cannot be executed, and nothing in index() catches it
StartScript(t) ==
    /\ req[t].pc = "popen"
    /\ LET s == req[t].scripts[req[t].i] IN
       req' = IF CanExec(s)
              THEN Set(t, [pc |-> "communicate",
                           launched |-> Append(req[t].launched,
                               Argv(s, req[t].tmpfile, req[t].event))])
              ELSE Answer(t, 500, <<>>)
    /\ UNCHANGED <<config, hooksdir, tmpdir, threads>>

\* lines 157-161: ran[basename(s)] = {...}
Record(ran, key, returncode) ==
    [k \in DOMAIN ran \cup {key} |-> IF k = key THEN returncode ELSE ran[k]]

\* line 149: where the for loop goes after scripts[i]
AfterScript(i, scripts, returncode) ==
    IF i < Len(scripts) THEN [pc |-> "popen", i |-> i + 1]
    ELSE [pc |-> "remove", i |-> i]

\* lines 155-167: wait for scripts[i] to exit, drain its output, record it
\* (a failure is only logged) and go on with the loop
FinishScript(t) ==
    /\ req[t].pc = "communicate"
    /\ \E returncode \in {0, 1} :
          LET s == req[t].scripts[req[t].i]
              next == AfterScript(req[t].i, req[t].scripts, returncode)
          IN req' = Set(t, [pc |-> next.pc, i |-> next.i,
                            ran |-> Record(req[t].ran, basename(s), returncode),
                            execs |-> Append(req[t].execs,
                                [script |-> s, returncode |-> returncode])])
    /\ UNCHANGED <<config, hooksdir, tmpdir, threads>>

\* line 170: remove the temporary file
RemoveTmp(t) ==
    /\ req[t].pc = "remove"
    /\ IF tmpdir[req[t].tmpfile] = NoFile
       THEN /\ req' = Answer(t, 500, <<>>)        \* os.remove raises OSError
            /\ UNCHANGED tmpdir
       ELSE /\ tmpdir' = [tmpdir EXCEPT ![req[t].tmpfile] = NoFile]
            /\ req' = Set(t, [pc |-> "respond", removed |-> req[t].removed + 1])
    /\ UNCHANGED <<config, hooksdir, threads>>

\* lines 172-178: the body of the answer
ResponseBody(info, ran) == IF ~info THEN <<>> ELSE <<ran>>

\* lines 172-178: answer
Respond(t) ==
    /\ req[t].pc = "respond"
    /\ req' = Answer(t, 200, ResponseBody(config.RETURN_SCRIPTS_INFO, req[t].ran))
    /\ UNCHANGED <<config, hooksdir, tmpdir, threads>>

Next ==
    \E t \in ThreadIds :
        \/ Receive(t)
        \/ MethodCheck(t)
        \/ IpCheck(t)
        \/ SecretCheck(t)
        \/ ClassifyEvent(t)
        \/ ParsePayload(t)
        \/ ResolveScripts(t)
        \/ Mkstemp(t)
        \/ WritePayload(t)
        \/ StartScript(t)
        \/ FinishScript(t)
        \/ RemoveTmp(t)
        \/ Respond(t)

Spec == Init /\ [][Next]_vars


-----------------------------------------------------------------------------
(* What the properties read *)

\* the request of thread t has been answered
Answered(t) == req[t].pc = "done"

\* the addresses of a network, as a range
NetAddresses(net) ==
    {a \in 0..3 : net.base <= a /\ a < net.base + Pow2(2 - net.prefix)}

\* the remote address of t's request lies outside every allowlisted network
OutsideAllowlist(t) ==
    \A k \in DOMAIN req[t].request.whitelist :
        req[t].request.remote_addr \notin NetAddresses(req[t].request.whitelist[k])

\* the X-Hub-Signature header of t's request gives a digest
GivesDigest(t) ==
    /\ "X-Hub-Signature" \in DOMAIN req[t].request.headers
    /\ Len(req[t].request.headers["X-Hub-Signature"]) = 2

GivenAlgorithm(t) == req[t].request.headers["X-Hub-Signature"][1]

GivenDigest(t) == req[t].request.headers["X-Hub-Signature"][2]

\* the digest given is not the HMAC-SHA1 of the raw body under the secret
DigestMismatch(t) ==
    /\ config.ENFORCE_SECRET # ""
    /\ GivesDigest(t)
    /\ GivenDigest(t) # HmacSha1Hex(config.ENFORCE_SECRET, req[t].request.data)

\* t's request passes the method, address and signature checks
PassesValidation(t) ==
    /\ req[t].request.method = "POST"
    /\ config.GITHUB_IPS_ONLY => ~OutsideAllowlist(t)
    /\ config.ENFORCE_SECRET # "" =>
          /\ GivesDigest(t)
          /\ GivenAlgorithm(t) = "sha1"
          /\ ~DigestMismatch(t)

\* some event header of t's request carries a value
HasEventHeader(t) ==
    \E h \in {"X-GitHub-Event", "X-Gitlab-Event"} :
        h \in DOMAIN req[t].request.headers /\ req[t].request.headers[h] # ""

\* the body of t's request is not JSON, or lacks repository.name, ref, or
\* any event field
IncompletePayload(t) ==
    \/ ~IsJson(req[t].request.data)
    \/ LET p == loads(req[t].request.data) IN
          \/ "repository" \notin DOMAIN p
          \/ "name" \notin DOMAIN p.repository
          \/ "ref" \notin DOMAIN p
          \/ ~HasEventHeader(t) /\ "object_kind" \notin DOMAIN p

\* the hooks directory holds a regular file of that name with the execute bit
Qualifies(path) ==
    /\ path.dir = HOOKS
    /\ path.base \in HookNames
    /\ hooksdir[path.base] \in {Script, Broken}


-----------------------------------------------------------------------------
(* Properties *)

\* C1: a request for which no candidate is runnable never creates a
\* temporary file; otherwise the file is created and written once, before
\* the first script starts, removed once, after the last script completed,
\* and no answered request leaves its file behind.
C1_TempFileLifecycle ==
    \A t \in ThreadIds :
        /\ req[t].created <= 1 /\ req[t].written <= 1 /\ req[t].removed <= 1
        /\ (req[t].candidate_scripts # <<>> /\ req[t].scripts = <<>>) =>
               req[t].created = 0
        /\ req[t].launched # <<>> => req[t].created = 1 /\ req[t].written = 1
        /\ req[t].removed = 1 => Len(req[t].execs) = Len(req[t].scripts)
        /\ Answered(t) => req[t].removed = req[t].created

C3_OutsideAlwaysForbidden ==
    \A t \in ThreadIds :
        (Answered(t) /\ config.GITHUB_IPS_ONLY /\ OutsideAllowlist(t)) =>
            req[t].status = 403

\* C3: with the allowlist on, every POST request from an address outside
\* the allowlist is answered 403, whatever its payload and signature.
C3_OutsidePostForbidden ==
    \A t \in ThreadIds :
        ( /\ Answered(t)
          /\ req[t].request.method = "POST"
          /\ config.GITHUB_IPS_ONLY
          /\ OutsideAllowlist(t) ) => req[t].status = 403

C3_Witness ==
    \E t \in ThreadIds :
        /\ Answered(t)
        /\ req[t].request.method = "POST"
        /\ config.GITHUB_IPS_ONLY
        /\ OutsideAllowlist(t)
        /\ config.ENFORCE_SECRET # ""
        /\ GivesDigest(t) /\ GivenAlgorithm(t) = "sha1" /\ ~DigestMismatch(t)
        /\ ~IncompletePayload(t)
        /\ req[t].status = 403

\* the number of qualifying candidates among the first k
QualifyingUpTo(c, k) == Cardinality({j \in 1..k : Qualifies(c[j])})

C5_EveryScriptStarted ==
    \A t \in ThreadIds :
        /\ Len(req[t].launched) <= Len(req[t].execs) + 1
        /\ \A j \in DOMAIN req[t].launched :
              j <= Len(req[t].scripts) /\ req[t].launched[j][1] = req[t].scripts[j]
        /\ (Answered(t) /\ req[t].scripts # <<>>) =>
              /\ Len(req[t].launched) = Len(req[t].scripts)
              /\ req[t].status = 200

\* C6: when scripts ran and the request is answered 200, the result
\* mapping holds for each execution an entry under the script's basename
\* with the return code of that execution, and the body is the mapping
\* when RETURN_SCRIPTS_INFO is set and empty otherwise.
C6_ResultPerExecution ==
    \A t \in ThreadIds :
        (Answered(t) /\ req[t].status = 200 /\ req[t].execs # <<>>) =>
            /\ \A j \in DOMAIN req[t].execs :
                  /\ req[t].execs[j].script.base \in DOMAIN req[t].ran
                  /\ req[t].ran[req[t].execs[j].script.base] =
                         req[t].execs[j].returncode
            /\ req[t].body =
                  IF config.RETURN_SCRIPTS_INFO THEN <<req[t].ran>> ELSE <<>>

\* C7: a request that passes the method, address and signature checks and
\* whose body is not JSON or lacks repository.name, ref or any event field
\* is answered 400 and runs no script.
C7_IncompleteIsBadRequest ==
    \A t \in ThreadIds :
        (Answered(t) /\ PassesValidation(t) /\ IncompletePayload(t)) =>
            /\ req[t].status = 400
            /\ req[t].launched = <<>>
            /\ req[t].created = 0

C7_Witness ==
    \E t \in ThreadIds :
        /\ Answered(t) /\ PassesValidation(t)
        /\ config.GITHUB_IPS_ONLY /\ config.ENFORCE_SECRET # ""
        /\ req[t].request.data = BodyNoRef
        /\ hooksdir["all"] = Script
        /\ req[t].status = 400

\* t holds a temporary file: it has created it and not yet removed it
HoldsTmp(t) == req[t].pc \in {"write", "popen", "communicate", "remove"}

\* C8: threads that hold temporary files hold different ones; from the
\* write to the removal, and so during each of its scripts, the file of a
\* request exists with the payload of that request; each script is given
\* the path of the file of its own request.
C8_OwnTempFile ==
    /\ \A t1, t2 \in ThreadIds :
          (t1 # t2 /\ HoldsTmp(t1) /\ HoldsTmp(t2)) =>
              req[t1].tmpfile # req[t2].tmpfile
    /\ \A t \in ThreadIds :
          /\ req[t].pc \in {"popen", "communicate", "remove"} =>
                tmpdir[req[t].tmpfile] = dumps(loads(req[t].request.data))
          /\ \A j \in DOMAIN req[t].launched :
                req[t].launched[j][2] = req[t].tmpfile

C8_Witness ==
    /\ req["t1"].request = req["t2"].request
    /\ req["t1"].pc = "communicate"
    /\ req["t2"].pc = "communicate"
    /\ req["t1"].tmpfile # req["t2"].tmpfile

\* C9: a script is started or a temporary file created only for a POST
\* request that passed the address and signature checks and whose payload
\* gave name, branch and event; a request answered 501, 403 or 400 has
\* started no script and created no file.
C9_NothingRunsUnvalidated ==
    \A t \in ThreadIds :
        /\ (req[t].launched # <<>> \/ req[t].created > 0) =>
              /\ PassesValidation(t)
              /\ ~IncompletePayload(t)
              /\ req[t].meta.name # "" /\ req[t].meta.branch # ""
              /\ req[t].meta.event # ""
        /\ req[t].status \in {501, 403, 400} =>
              req[t].launched = <<>> /\ req[t].created = 0

C9_Witness ==
    \E t \in ThreadIds :
        /\ req[t].launched # <<>>
        /\ config.GITHUB_IPS_ONLY
        /\ config.ENFORCE_SECRET # ""

\* C10: the event given to each script as its second argument is the event
\* of the meta triple, the one the candidate names are built from.
C10_EventArgument ==
    \A t \in ThreadIds :
        \A j \in DOMAIN req[t].launched :
            req[t].launched[j][3] = req[t].meta.event

=============================================================================
